---- MODULE Spec2Model ----
(***************************************************************************)
(* Model of UE4Serialization.hpp: the TSubclassOfRegistration registry     *)
(* and the cereal codecs for TSubclassOfType, FBox/FBox2D, TArray and      *)
(* TMap.                                                                   *)
(***************************************************************************)
EXTENDS Integers, Sequences, FiniteSets

\* ------------------------------------------------------------------ bounds
\* int is modelled as the two's complement range -(MaxId+1) .. MaxId.
MaxId == 1
\* Number of distinct non-empty class handles.
NumHandles == 2
\* Largest coordinate value of a box corner.
MaxCoord == 3
\* Longest TArray modelled.
MaxLen == 3
\* Largest element / value stored in a container.
MaxElem == 1
\* Largest TMap key.
MaxKey == 1
\* Largest number of map entries in an archive.
MaxEntries == 3

\* ------------------------------------------------------------ int and handles
IntMin == -(MaxId + 1)
IntMax == MaxId
Ids == IntMin..IntMax

\* std::numeric_limits<int>::min(), the "invalid identifier" result.
Sentinel == IntMin

\* TSubclassOfType(): the empty class reference.
EmptyHandle == 0
Handles == 0..NumHandles

EmptyMap == [k \in {} |-> EmptyHandle]

VARIABLES
    TSubclassOfMap,  \* std::map<int, TSubclassOfType>, iterated in key order
    hung,            \* TRUE once a call failed to return
    registered,      \* history: identifiers registered since the last clear
    last,            \* history: the latest registration that returned
    pc,              \* position of the codec scenario: idle / saved / loaded
    ar,              \* the archive: sequence of values written
    obj,             \* TSubclassOfType given to the saving serialize
    objOut,          \* TSubclassOfType filled by the loading serialize
    boxIn, boxOut,   \* FBox / FBox2D saved and loaded
    arrIn, arrOut,   \* TArray saved and loaded
    mapIn, mapOut,   \* TMap saved and loaded
    prior            \* history: the destination container before the load

regVars == <<TSubclassOfMap, hung, registered, last>>
refVars == <<obj, objOut>>
boxVars == <<boxIn, boxOut>>
arrVars == <<arrIn, arrOut, prior>>
mapVars == <<mapIn, mapOut>>
vars == <<TSubclassOfMap, hung, registered, last, pc, ar, obj, objOut,
          boxIn, boxOut, arrIn, arrOut, mapIn, mapOut, prior>>

\* ------------------------------------------------------------------- archive
\* What one ar(...) call puts into the archive: a value, named or not.
Value(v) == [name |-> "", value |-> v]
Nvp(name, v) == [name |-> name, value |-> v]
SizeTag(n) == [name |-> "size", value |-> n]
MapItem(k, v) == [name |-> "item", value |-> <<k, v>>]

\* ------------------------------------------------------------------ registry
\* History record of a registration.
NoCall == [op |-> "none", id |-> Sentinel, fresh |-> FALSE]
Call(op, id, m) == [op |-> op, id |-> id, fresh |-> id \notin DOMAIN m]

\* TSubclassOfMap[id] = subclass on a std::map: insert or overwrite.
MapAssignKeepFirst(m, id, subclass) ==
    IF id \in DOMAIN m THEN m
    ELSE [k \in DOMAIN m \cup {id} |-> IF k = id THEN subclass ELSE m[k]]

MapAssign(m, id, subclass) ==
    [k \in DOMAIN m \cup {id} |-> IF k = id THEN subclass ELSE m[k]]

\* The range-for of GetIdOfTSubclassOf from key `from` on, ascending.
RECURSIVE ScanFrom(_, _, _)
ScanFrom(m, subclass, from) ==
    IF from > IntMax THEN Sentinel
    ELSE IF from \in DOMAIN m /\ m[from] = subclass THEN from
    ELSE ScanFrom(m, subclass, from + 1)

\* The same scan walking the keys downwards.
RECURSIVE ScanDownFrom(_, _, _)
ScanDownFrom(m, subclass, from) ==
    IF from < IntMin THEN Sentinel
    ELSE IF from \in DOMAIN m /\ m[from] = subclass THEN from
    ELSE ScanDownFrom(m, subclass, from - 1)

GetIdDescending(m, subclass) == ScanDownFrom(m, subclass, IntMax)

\* The scan with the comparison left out: the first key there is.
GetIdFirstKey(m, subclass) ==
    IF DOMAIN m = {} THEN Sentinel
    ELSE CHOOSE k \in DOMAIN m : \A j \in DOMAIN m : k <= j

GetIdOfTSubclassOf(m, subclass) == ScanFrom(m, subclass, IntMin)

GetFromIdAlwaysEmpty(m, id) == EmptyHandle

GetTSubclassOfFromId(m, id) ==
    IF id \in DOMAIN m THEN m[id] ELSE EmptyHandle

GetNumberOfRegistrations(m) == Cardinality(DOMAIN m)

\* Outcome of a call: it returns id, or it never returns.
Returned(id) == [returns |-> TRUE, id |-> id]
NoReturn == [returns |-> FALSE, id |-> Sentinel]

\* ++NewId at the maximum int is signed overflow.  A wrapping build goes on
\* at the minimum int: it returns it when free, otherwise every int is a
\* key and the loop never ends; a trapping build aborts.
Overflow(m) ==
    IF IntMin \notin DOMAIN m THEN {Returned(IntMin), NoReturn}
    ELSE {NoReturn}

\* The while loop of GetNextID with NewId as the candidate.
RECURSIVE NextIDLoop(_, _)
NextIDLoop(m, NewId) ==
    IF NewId \notin DOMAIN m THEN {Returned(NewId)}
    ELSE IF NewId = IntMax THEN Overflow(m)
    ELSE NextIDLoop(m, NewId + 1)

GetNextID(m) == NextIDLoop(m, IntMin + 1)

RegisterWithId(id, subclass) ==
    /\ ~hung
    /\ TSubclassOfMap' = MapAssign(TSubclassOfMap, id, subclass)
    /\ registered' = registered \cup {id}
    /\ last' = Call("registerWithId", id, TSubclassOfMap)
    /\ UNCHANGED <<hung, pc, ar, refVars, boxVars, arrVars, mapVars>>

RegisterAuto(subclass) ==
    /\ ~hung
    /\ \E r \in GetNextID(TSubclassOfMap) :
          IF r.returns
          THEN /\ TSubclassOfMap' = MapAssign(TSubclassOfMap, r.id, subclass)
               /\ registered' = registered \cup {r.id}
               /\ last' = Call("registerAuto", r.id, TSubclassOfMap)
               /\ UNCHANGED hung
          ELSE /\ hung' = TRUE
               /\ UNCHANGED <<TSubclassOfMap, registered, last>>
    /\ UNCHANGED <<pc, ar, refVars, boxVars, arrVars, mapVars>>

UnregsterAll ==
    /\ ~hung
    /\ TSubclassOfMap' = EmptyMap
    /\ registered' = {}
    /\ last' = NoCall
    /\ UNCHANGED <<hung, pc, ar, refVars, boxVars, arrVars, mapVars>>

\* Codec state of a scenario that has not started.
IdleCodec ==
    /\ pc = "idle"
    /\ ar = <<>>
    /\ obj = EmptyHandle
    /\ objOut = EmptyHandle
    /\ boxIn = [kind |-> "FBox", Min |-> 0, Max |-> 0, IsValid |-> 0]
    /\ boxOut = [kind |-> "FBox", Min |-> 0, Max |-> 0, IsValid |-> 0]
    /\ arrIn = <<>>
    /\ arrOut = <<>>
    /\ mapIn = <<>>
    /\ mapOut = <<>>
    /\ prior = <<>>

EmptyRegistry ==
    /\ TSubclassOfMap = EmptyMap
    /\ hung = FALSE
    /\ registered = {}
    /\ last = NoCall

Init == EmptyRegistry /\ IdleCodec

Next ==
    \/ \E id \in Ids, h \in Handles : RegisterWithId(id, h)
    \/ \E h \in Handles : RegisterAuto(h)
    \/ UnregsterAll

Spec == Init /\ [][Next]_vars

\* ------------------------------------------------- class-reference codec
\* serialize(ar, obj) on a saving archive: ar(GetIdOfTSubclassOf(obj)).
SaveClassRef(h) ==
    /\ ~hung
    /\ pc = "idle"
    /\ obj' = h
    /\ ar' = Append(ar, Value(GetIdOfTSubclassOf(TSubclassOfMap, h)))
    /\ pc' = "saved"
    /\ UNCHANGED <<regVars, objOut, boxVars, arrVars, mapVars>>

\* serialize(ar, obj) on a loading archive: int x; ar(x); obj = handleOf(x).
LoadClassRef ==
    /\ ~hung
    /\ pc = "saved"
    /\ LET x == ar[1].value
       IN objOut' = GetTSubclassOfFromId(TSubclassOfMap, x)
    /\ pc' = "loaded"
    /\ UNCHANGED <<regVars, ar, obj, boxVars, arrVars, mapVars>>

\* Registrations, then one save and one load of a class reference.
NextClassRef ==
    \/ pc = "idle" /\ \E id \in Ids, h \in Handles : RegisterWithId(id, h)
    \/ pc = "idle" /\ \E h \in Handles : RegisterAuto(h)
    \/ pc = "idle" /\ UnregsterAll
    \/ \E h \in Handles : SaveClassRef(h)
    \/ LoadClassRef

SpecClassRef == Init /\ [][NextClassRef]_vars

\* ------------------------------------------------------- FBox and FBox2D
BoxKinds == {"FBox", "FBox2D"}
Coords == 0..MaxCoord
Boxes == [kind : BoxKinds, Min : Coords, Max : Coords, IsValid : 0..1]

\* Name of the validity field: IsValid in FBox, bIsValid in FBox2D.
ValidName(kind) == IF kind = "FBox" THEN "IsValid" ELSE "bIsValid"

\* The three named values of serialize(ar, FBox&) / serialize(ar, FBox2D&),
\* in the order written.
BoxFields(in) ==
    <<Nvp(ValidName(in.kind), in.Max), Nvp("Min", in.Min), Nvp("Max", in.Max)>>

\* The same serialize reading: each value goes where the save took it from.
BoxAssign(in, a) ==
    LET b1 == [in EXCEPT !.Max = a[1].value]
        b2 == [b1 EXCEPT !.Min = a[2].value]
    IN [b2 EXCEPT !.Max = a[3].value]

SaveBox ==
    /\ pc = "idle"
    /\ ar' = ar \o BoxFields(boxIn)
    /\ pc' = "saved"
    /\ UNCHANGED <<regVars, refVars, boxVars, arrVars, mapVars>>

\* The destination is a freshly constructed box: FBox() and FBox2D()
\* initialise no member, so its fields hold any value.
LoadBox ==
    /\ pc = "saved"
    /\ \E fresh \in Boxes :
          /\ fresh.kind = boxIn.kind
          /\ boxOut' = BoxAssign(fresh, ar)
    /\ pc' = "loaded"
    /\ UNCHANGED <<regVars, refVars, ar, boxIn, arrVars, mapVars>>

InitBox ==
    /\ EmptyRegistry
    /\ pc = "idle"
    /\ ar = <<>>
    /\ obj = EmptyHandle
    /\ objOut = EmptyHandle
    /\ boxIn \in Boxes
    /\ boxOut = [kind |-> boxIn.kind, Min |-> 0, Max |-> 0, IsValid |-> 0]
    /\ arrIn = <<>>
    /\ arrOut = <<>>
    /\ mapIn = <<>>
    /\ mapOut = <<>>
    /\ prior = <<>>

NextBox == SaveBox \/ LoadBox

SpecBox == InitBox /\ [][NextBox]_vars

\* ------------------------------------------------------------------ TArray
Elems == 0..MaxElem
Arrays == UNION {[1..n -> Elems] : n \in 0..MaxLen}

\* A default-constructed element.
DefaultElem == 0

\* A resize that only ever grows.
SetNumGrowOnly(a, n) ==
    IF n <= Len(a) THEN a
    ELSE a \o [i \in 1..(n - Len(a)) |-> DefaultElem]

\* TArray::SetNum: cut to n elements, or pad with default elements.
SetNum(a, n) ==
    IF n <= Len(a) THEN SubSeq(a, 1, n)
    ELSE a \o [i \in 1..(n - Len(a)) |-> DefaultElem]

\* save of a TArray: the size tag, then every element in iteration order.
ArrayFields(in) ==
    <<SizeTag(Len(in))>> \o [i \in 1..Len(in) |-> Value(in[i])]

\* for (auto&& e : out) a(e): element i takes the i-th value after the
\* size tag; the archive has no value left past its end.
RECURSIVE ReadElems(_, _, _)
ReadElems(a, out, i) ==
    IF i > Len(out) \/ i + 1 > Len(a) THEN out
    ELSE ReadElems(a, [out EXCEPT ![i] = a[i + 1].value], i + 1)

SaveArray ==
    /\ pc = "idle"
    /\ ar' = ar \o ArrayFields(arrIn)
    /\ pc' = "saved"
    /\ UNCHANGED <<regVars, refVars, boxVars, arrVars, mapVars>>

LoadArray ==
    /\ pc = "saved"
    /\ LET size == ar[1].value
       IN arrOut' = ReadElems(ar, SetNum(arrOut, size), 1)
    /\ pc' = "loaded"
    /\ UNCHANGED <<regVars, refVars, boxVars, ar, arrIn, prior, mapVars>>

InitArray ==
    /\ EmptyRegistry
    /\ pc = "idle"
    /\ ar = <<>>
    /\ obj = EmptyHandle
    /\ objOut = EmptyHandle
    /\ boxIn = [kind |-> "FBox", Min |-> 0, Max |-> 0, IsValid |-> 0]
    /\ boxOut = boxIn
    /\ arrIn \in Arrays
    /\ arrOut \in Arrays
    /\ prior = arrOut
    /\ mapIn = <<>>
    /\ mapOut = <<>>

NextArray == SaveArray \/ LoadArray

SpecArray == InitArray /\ [][NextArray]_vars

\* -------------------------------------------------------------------- TMap
Keys == 0..MaxKey
Maps == UNION {[S -> Elems] : S \in SUBSET Keys}

\* The orders a range-for may visit the keys S in.
Orders(S) ==
    {f \in [1..Cardinality(S) -> S] :
        \A i, j \in 1..Cardinality(S) : f[i] = f[j] => i = j}

\* An insertion that leaves a key already there alone.
EmplaceKeepFirst(m, k, v) ==
    IF k \in DOMAIN m THEN m
    ELSE [x \in DOMAIN m \cup {k} |-> IF x = k THEN v ELSE m[x]]

\* TMap::Emplace: set the value of the key, replacing the pair there.
Emplace(m, k, v) ==
    [x \in DOMAIN m \cup {k} |-> IF x = k THEN v ELSE m[x]]

\* save of a TMap visiting the keys in order f.
MapFields(in, f) ==
    <<SizeTag(Cardinality(DOMAIN in))>>
        \o [i \in 1..Cardinality(DOMAIN in) |-> MapItem(f[i], in[f[i]])]

\* The for loop of load from iteration i on: entry i + 1 follows the size
\* tag.
RECURSIVE ReadItems(_, _, _, _)
ReadItems(a, size, out, i) ==
    IF i >= size THEN out
    ELSE LET item == a[i + 2].value
         IN ReadItems(a, size, Emplace(out, item[1], item[2]), i + 1)

SaveMap ==
    /\ pc = "idle"
    /\ \E f \in Orders(DOMAIN mapIn) : ar' = ar \o MapFields(mapIn, f)
    /\ pc' = "saved"
    /\ UNCHANGED <<regVars, refVars, boxVars, arrVars, mapVars>>

\* The archives that no save of this program wrote: a size tag and that
\* many entries, keys free to repeat.
ForeignMapArchives ==
    UNION {{<<SizeTag(n)>> \o [i \in 1..n |-> MapItem(e[i][1], e[i][2])] :
              e \in [1..n -> Keys \X Elems]} : n \in 0..MaxEntries}

LoadMap ==
    /\ pc \in {"saved", "foreign"}
    /\ LET size == ar[1].value
       IN mapOut' = ReadItems(ar, size, EmptyMap, 0)
    /\ pc' = IF pc = "saved" THEN "loaded" ELSE "loadedForeign"
    /\ UNCHANGED <<regVars, refVars, boxVars, arrVars, ar, mapIn>>

InitMap ==
    /\ EmptyRegistry
    /\ \/ pc = "idle" /\ ar = <<>> /\ mapIn \in Maps
       \/ pc = "foreign" /\ ar \in ForeignMapArchives /\ mapIn = EmptyMap
    /\ obj = EmptyHandle
    /\ objOut = EmptyHandle
    /\ boxIn = [kind |-> "FBox", Min |-> 0, Max |-> 0, IsValid |-> 0]
    /\ boxOut = boxIn
    /\ arrIn = <<>>
    /\ arrOut = <<>>
    /\ mapOut \in Maps
    /\ prior = mapOut

NextMap == SaveMap \/ LoadMap

SpecMap == InitMap /\ [][NextMap]_vars

\* ---------------------------------------------------------------- claims
IsStored(m, h) == \E k \in DOMAIN m : m[k] = h

\* C1: for every handle h, when idOf(h) is not the sentinel,
\* handleOf(idOf(h)) is h.
C1_LookupRoundTrip ==
    \A h \in Handles :
        GetIdOfTSubclassOf(TSubclassOfMap, h) # Sentinel
        => GetTSubclassOfFromId(TSubclassOfMap,
                                GetIdOfTSubclassOf(TSubclassOfMap, h)) = h

C1_Witness ==
    /\ Cardinality(DOMAIN TSubclassOfMap) >= 2
    /\ \E h \in Handles \ {EmptyHandle} :
          /\ GetIdOfTSubclassOf(TSubclassOfMap, h) # Sentinel
          /\ GetTSubclassOfFromId(TSubclassOfMap,
                                  GetIdOfTSubclassOf(TSubclassOfMap, h)) = h
          /\ \E g \in Handles : g # h /\ IsStored(TSubclassOfMap, g)

\* C2: the sentinel identifier is never the key of a registry entry.
C2_SentinelNeverKey == Sentinel \notin DOMAIN TSubclassOfMap

\* C3: every registerAuto(h) stores h under an identifier that is greater
\* than the sentinel and was not a key before, leaves every earlier entry
\* as it was and makes count() grow by one (so n calls give n distinct
\* identifiers and count() + n).
C3_AutoAllocatesFresh ==
    [][\A h \in Handles :
          RegisterAuto(h) =>
              /\ GetNumberOfRegistrations(TSubclassOfMap')
                    = GetNumberOfRegistrations(TSubclassOfMap) + 1
              /\ \E id \in Ids \ DOMAIN TSubclassOfMap :
                    /\ id > Sentinel
                    /\ DOMAIN TSubclassOfMap' = DOMAIN TSubclassOfMap \cup {id}
                    /\ TSubclassOfMap'[id] = h
                    /\ \A k \in DOMAIN TSubclassOfMap :
                          TSubclassOfMap'[k] = TSubclassOfMap[k]]_vars

C9_FirstFit ==
    LET free == {k \in (IntMin + 1)..IntMax : k \notin DOMAIN TSubclassOfMap}
    IN /\ ~hung
       /\ free # {}
       /\ GetNextID(TSubclassOfMap)
            = {Returned(CHOOSE k \in free : \A j \in free : k <= j)}
       /\ Returned(Sentinel) \notin GetNextID(TSubclassOfMap)
       /\ TSubclassOfMap = EmptyMap
            => GetNextID(TSubclassOfMap) = {Returned(IntMin + 1)}

\* C10: idOf(h) of a stored handle h is the smallest identifier whose entry
\* is h, whatever the order of the registrations.
C10_SmallestIdWins ==
    \A h \in Handles :
        IsStored(TSubclassOfMap, h) =>
            /\ TSubclassOfMap[GetIdOfTSubclassOf(TSubclassOfMap, h)] = h
            /\ \A k \in DOMAIN TSubclassOfMap :
                  TSubclassOfMap[k] = h
                  => GetIdOfTSubclassOf(TSubclassOfMap, h) <= k

\* h is stored twice, the smaller identifier was registered last.
C10_Witness ==
    /\ last.op # "none"
    /\ last.fresh
    /\ \E k \in DOMAIN TSubclassOfMap :
          /\ k > last.id
          /\ TSubclassOfMap[k] = TSubclassOfMap[last.id]
    /\ GetIdOfTSubclassOf(TSubclassOfMap, TSubclassOfMap[last.id]) = last.id

\* C4 as stated: the round trip changes h precisely when h is not
\* registered, and then save writes the sentinel and load gives the empty
\* handle.
C4_LossyIffUnregistered ==
    pc = "loaded" =>
        /\ (objOut # obj) <=> ~IsStored(TSubclassOfMap, obj)
        /\ ~IsStored(TSubclassOfMap, obj)
             => ar[1].value = Sentinel /\ objOut = EmptyHandle

\* C4 amended: a stored handle round-trips to itself; a handle that is not
\* stored is written as the sentinel and loads as handleOf(sentinel); the
\* result differs from h precisely when h is not stored and is either
\* non-empty or shadowed by an entry keyed by the sentinel.
C4_RoundTrip ==
    pc = "loaded" =>
        /\ IsStored(TSubclassOfMap, obj) => objOut = obj
        /\ ~IsStored(TSubclassOfMap, obj)
             => /\ ar[1].value = Sentinel
                /\ objOut = GetTSubclassOfFromId(TSubclassOfMap, Sentinel)
        /\ (objOut # obj)
             <=> /\ ~IsStored(TSubclassOfMap, obj)
                 /\ obj # EmptyHandle \/ Sentinel \in DOMAIN TSubclassOfMap

\* The empty handle, not stored, comes back as itself.
C4_Witness ==
    /\ pc = "loaded"
    /\ obj = EmptyHandle
    /\ TSubclassOfMap # EmptyMap
    /\ ~IsStored(TSubclassOfMap, obj)
    /\ ar[1].value = Sentinel
    /\ objOut = obj

\* C6 as stated: a box loaded from what save wrote of box v into a freshly
\* constructed box equals v in Min, Max and the validity flag.
C6_BoxRoundTrip ==
    pc = "loaded" => boxOut = boxIn

\* C7: save writes the element count as size tag and then the elements in
\* order; the load of it gives a sequence of the length and the elements of
\* the saved one, whatever the destination held.
C7_ArrayRoundTrip ==
    /\ pc \in {"saved", "loaded"} =>
          /\ Len(ar) = Len(arrIn) + 1
          /\ ar[1] = SizeTag(Len(arrIn))
          /\ \A i \in 1..Len(arrIn) : ar[i + 1].value = arrIn[i]
    /\ pc = "loaded" =>
          /\ Len(arrOut) = Len(arrIn)
          /\ \A i \in 1..Len(arrIn) : arrOut[i] = arrIn[i]

\* A longer destination with other elements took a shorter sequence.
C7_Witness ==
    /\ pc = "loaded"
    /\ Len(arrIn) = 2
    /\ arrIn[1] # arrIn[2]
    /\ Len(prior) > Len(arrIn)
    /\ prior[1] # arrIn[1]
    /\ arrOut = arrIn

\* C8: after a load the destination holds exactly the keys of the entries
\* read, each with the value of the last entry of that key; the load of a
\* saved map is the saved map, whatever order save visited it in.
C8_MapLoad ==
    pc \in {"loaded", "loadedForeign"} =>
        LET n == ar[1].value
            key(i) == ar[i + 1].value[1]
            val(i) == ar[i + 1].value[2]
        IN /\ DOMAIN mapOut = {key(i) : i \in 1..n}
           /\ \A i \in 1..n :
                 (\A j \in (i + 1)..n : key(j) # key(i))
                 => mapOut[key(i)] = val(i)
           /\ pc = "loaded" =>
                 /\ mapOut = mapIn
                 /\ Cardinality(DOMAIN mapOut) = Cardinality(DOMAIN mapIn)

\* A key read twice with different values keeps the later one, and a key
\* the destination held before is gone.
C8_Witness ==
    /\ pc = "loadedForeign"
    /\ ar[1].value = 2
    /\ ar[2].value[1] = ar[3].value[1]
    /\ ar[2].value[2] # ar[3].value[2]
    /\ mapOut[ar[3].value[1]] = ar[3].value[2]
    /\ \E k \in DOMAIN prior : k \notin DOMAIN mapOut

====
